---- MODULE Spec2Model ----
(***************************************************************************)
(* A model of vibe-analyze's context-assembly pipeline (cli.main):         *)
(* admission filter, parallel load-and-redact, early-fit gate, two-stage   *)
(* selection, budgeted packer, Mode B fallback and bundle assembly.        *)
(*                                                                         *)
(* Paths, patterns and import references are sequences of one-character    *)
(* strings, so that fnmatch, startswith/endswith, basename and the         *)
(* lexicographic sort are computed character by character as the code      *)
(* computes them.  A text (file content, request, overview) is a record    *)
(*   [len  : its length in characters,                                     *)
(*    enc  : the number of tokens the cl100k_base encoder gives it,        *)
(*    refs : the set collect_import_refs extracts from it].                *)
(* headroom is a number of hundredths (99 is --headroom 0.99); the budget  *)
(* int((1.0 - headroom) * 1_000_000) is computed in exact arithmetic.      *)
(***************************************************************************)
EXTENDS Integers, Sequences, FiniteSets, TLC

VARIABLES
    pc,             \* position in cli.main
    headroom,       \* args.headroom, in hundredths
    file_cap,       \* args.file_cap_bytes
    allow_secrets,  \* args.allow_secrets or cfg["allow_secrets"]
    encLoaded,      \* tokenize._load_enc() yields an encoder
    clientReady,    \* GeminiClient.ready(): API key and SDK present
    max_stage1,     \* args.max_stage1 or cfg["max_stage1"]
    max_stage2,     \* args.max_stage2 or cfg["max_stage2"]
    request,        \* args.request
    overview,       \* assemble_overview(root)
    files,          \* discover_files(root), root-relative, sorted
    info_map,       \* dict rel -> FileInfo
    blocked,        \* list of secret-blocked rels
    futures,        \* load_and_redact: rel -> state of its future
    expanded,       \* stage-1 patterns expanded over the discovered files
    prioritized,    \* list of <<priority, rel>>
    pass,           \* 0 before packing, 1 first pass, 2 pass after fallback
    offered,        \* the list handed to the running budgeted_pack call
    queue,          \* budgeted_pack: candidates in the order the loops visit them
    qi,             \* budgeted_pack: number of candidates visited
    texts,          \* budgeted_pack: the running text set
    out,            \* budgeted_pack: accepted <<priority, rel>> so far
    packed,         \* result of the last budgeted_pack call
    packed1,        \* result of the first budgeted_pack call
    ranked_b,       \* result of fallback_mode_b
    bundle,         \* rels whose content cxml_bundle wrote
    stderr,         \* diagnostic lines written by eprint
    exitCode,       \* return value of main; -1 while running
    earlyFit,       \* result of fits_early; "unknown" before the check
    stage1Calls,    \* number of calls of stage1_select
    stage2Calls,    \* number of calls of stage2_select
    fallbackRuns,   \* number of calls of fallback_mode_b
    oracle,         \* outcome of the GeminiClient call of each stage
    argv,           \* the command-line flags given (None: flag absent)
    yml,            \* the keys .vibe.yml sets (None: key absent)
    selector_model, \* args.selector_model or cfg["selector_model"]
    analysis_model  \* args.analysis_model or cfg["analysis_model"]

vars == <<pc, headroom, file_cap, allow_secrets, encLoaded, clientReady,
          max_stage1, max_stage2, request, overview,
          files, info_map, blocked, futures, expanded, prioritized, pass,
          offered, queue, qi, texts, out, packed, packed1, ranked_b, bundle,
          stderr, exitCode, earlyFit, stage1Calls, stage2Calls, fallbackRuns,
          oracle, argv, yml, selector_model, analysis_model>>

----------------------------------------------------------------------------
(* Bounds of the model *)

\* at most this many files are discovered under the root
MaxFiles == 2
\* at most this many lines in a stage-2 oracle answer
MaxRanked == 3
\* at most this many admitted files when the packer is explored on its own
MaxPackFiles == 3

----------------------------------------------------------------------------
(* Characters and strings *)

\* the characters used, in code-point order
Alphabet ==
    <<"*", ".", "/", "1", "2", "C", "\\", "_", "a", "b", "c", "d", "e", "g",
      "i", "k", "l", "m", "n", "o", "p", "r", "s", "t", "u", "v", "w", "y", "z">>

Ord(c) == CHOOSE i \in 1..Len(Alphabet) : Alphabet[i] = c

Max2(a, b) == IF a >= b THEN a ELSE b
Min2(a, b) == IF a <= b THEN a ELSE b

\* str.lower()
LowerChar(c) == IF c = "C" THEN "c" ELSE c
Lower(s) == [i \in 1..Len(s) |-> LowerChar(s[i])]

\* str.replace("\\", "/")
Slashes(s) == [i \in 1..Len(s) |-> IF s[i] = "\\" THEN "/" ELSE s[i]]

StartsWith(s, pre) == Len(pre) <= Len(s) /\ SubSeq(s, 1, Len(pre)) = pre
EndsWith(s, suf) ==
    Len(suf) <= Len(s) /\ SubSeq(s, Len(s) - Len(suf) + 1, Len(s)) = suf
Contains(s, sub) ==
    \E i \in 1..(Len(s) + 1) :
        i + Len(sub) - 1 <= Len(s) /\ SubSeq(s, i, i + Len(sub) - 1) = sub

\* python's < on strings
RECURSIVE StrLess(_, _)
StrLess(s, t) ==
    IF t = <<>> THEN FALSE
    ELSE IF s = <<>> THEN TRUE
    ELSE IF Head(s) = Head(t) THEN StrLess(Tail(s), Tail(t))
    ELSE Ord(Head(s)) < Ord(Head(t))

\* fnmatch.fnmatch(name, pat) on POSIX: * matches any run of characters
\* (the slash included), ? one character, anything else itself
RECURSIVE FnMatch(_, _)
FnMatch(name, pat) ==
    IF pat = <<>> THEN name = <<>>
    ELSE IF Head(pat) = "*"
        THEN FnMatch(name, Tail(pat))
             \/ (name # <<>> /\ FnMatch(Tail(name), pat))
    ELSE IF Head(pat) = "?"
        THEN name # <<>> /\ FnMatch(Tail(name), Tail(pat))
    ELSE name # <<>> /\ Head(name) = Head(pat)
         /\ FnMatch(Tail(name), Tail(pat))

\* str.rstrip(chars)
RECURSIVE RStrip(_, _)
RStrip(s, chars) ==
    IF s # <<>> /\ s[Len(s)] \in chars
        THEN RStrip(SubSeq(s, 1, Len(s) - 1), chars)
        ELSE s

\* os.path.basename
RECURSIVE Basename(_)
Basename(s) ==
    IF \E i \in 1..Len(s) : s[i] = "/"
        THEN Basename(Tail(s))
        ELSE s

----------------------------------------------------------------------------
(* The files of the modelled tree *)

P_a    == <<"a", ".", "p", "y">>
P_bc   == <<"b", "/", "c", ".", "p", "y">>
P_bd   == <<"b", "/", "d", ".", "p", "y">>
P_env  == <<".", "e", "n", "v">>
P_benv == <<"b", "/", ".", "e", "n", "v">>
P_e    == <<"e", ".", "p", "y">>
\* a path no discovery returns
P_ghost == <<"z", ".", "p", "y">>

\* the files discovery can return in a whole run
Universe == {P_a, P_bc, P_env, P_benv}

\* util.SECRET_BLOCKLIST_GLOBS
SECRET_BLOCKLIST_GLOBS ==
    << <<".", "e", "n", "v", "*">>,
       <<"*", ".", "p", "e", "m">>,
       <<"i", "d", "_", "r", "s", "a", "*">>,
       <<"s", "e", "c", "r", "e", "t", "s", ".", "*">>,
       <<"*", ".", "k", "e", "y">>,
       <<"*", ".", "p", "1", "2">>,
       <<"*", ".", "k", "e", "y", "s", "t", "o", "r", "e">> >>

\* the credential-store substrings of is_secret_blocklisted
CREDENTIAL_STORES ==
    { <<"a", "w", "s", "/", "c", "r", "e", "d", "e", "n", "t", "i", "a", "l", "s">>,
      <<"g", "c", "p", "/">>,
      <<"g", "c", "l", "o", "u", "d", "/">> }

IsSecretBlocklisted(path) ==
    LET p == Slashes(path)
    IN  \/ \E i \in 1..Len(SECRET_BLOCKLIST_GLOBS) :
               FnMatch(p, SECRET_BLOCKLIST_GLOBS[i])
        \/ \E k \in CREDENTIAL_STORES : Contains(Lower(p), k)

----------------------------------------------------------------------------
(* Texts and the budget oracle *)

\* Optional[str]
None == <<>>
Some(t) == <<t>>

R_c == <<".", "/", "C", ".", "p", "y">>

\* the contents a read can return (after redact_high_entropy)
T_short == [len |-> 16000, enc |-> 16000, refs |-> {R_c}]
T_long  == [len |-> 64000, enc |-> 4000, refs |-> {}]
ContentPool == {T_short, T_long}

\* cli.ANALYSIS_SYSTEM: 198 characters
ANALYSIS_SYSTEM == [len |-> 198, enc |-> 40, refs |-> {}]

ABSOLUTE_BUDGET == 1000000

\* tokenize.count_tokens on one text
TokensOf(t, enc) == IF enc THEN t.enc ELSE Max2(1, t.len \div 4)

\* tokenize.count_tokens
RECURSIVE CountTokens(_, _)
CountTokens(ts, enc) ==
    IF ts = <<>> THEN 0
    ELSE TokensOf(Head(ts), enc) + CountTokens(Tail(ts), enc)

\* int((1.0 - headroom) * 1_000_000), headroom in hundredths
Budget(h) == ((100 - h) * ABSOLUTE_BUDGET) \div 100

----------------------------------------------------------------------------
(* Admission filter *)

\* util.FileInfo; content is None until load_and_redact sets it
FileInfo(rel, size) ==
    [path |-> rel, size |-> size, blocked_secret |-> FALSE,
     oversized |-> FALSE, redactions |-> 0, content |-> None]

EmptyMap == [x \in {} |-> FileInfo(<<>>, 0)]

\* a line on the diagnostic channel
Diag(kind, rel, prio) == [kind |-> kind, rel |-> rel, prio |-> prio]

\* what os.stat can give for one path
StatFail == [ok |-> FALSE, size |-> 0]
StatOk(n) == [ok |-> TRUE, size |-> n]

\* the size test with the cap off by one
Oversized_OffByOne(size, cap) == size > cap + 1

\* cli.py:88, the size test of stat_and_filter
Oversized(size, cap) == size > cap

\* cli.py:92, the secret test of stat_and_filter
SecretBlocked(rel, allow) == ~allow /\ IsSecretBlocklisted(rel)

\* the loop body of stat_and_filter once the stat succeeded, with the
\* continue after the secret test left out
FilterOne_NoContinue(acc, rel, size, cap, allow) ==
    LET info == FileInfo(rel, size) IN
    IF Oversized(size, cap)
        THEN [acc EXCEPT !.diag = @ \cup {Diag("SKIPPED", rel, 0)}]
    ELSE IF SecretBlocked(rel, allow)
        THEN [acc EXCEPT !.blocked = Append(@, rel),
                         !.diag = @ \cup {Diag("BLOCKED", rel, 0)},
                         !.infos = (rel :> [info EXCEPT !.blocked_secret = TRUE]) @@ @]
    ELSE [acc EXCEPT !.infos = (rel :> info) @@ @]

\* the loop body of stat_and_filter once the stat succeeded (cli.py:87-97);
\* acc is [infos, blocked, diag]
FilterOne(acc, rel, size, cap, allow) ==
    LET info == FileInfo(rel, size) IN
    IF Oversized(size, cap)
        THEN [acc EXCEPT !.diag = @ \cup {Diag("SKIPPED", rel, 0)}]
    ELSE IF SecretBlocked(rel, allow)
        THEN [acc EXCEPT !.blocked = Append(@, rel),
                         !.diag = @ \cup {Diag("BLOCKED", rel, 0)}]
    ELSE [acc EXCEPT !.infos = (rel :> info) @@ @]

\* cli.stat_and_filter: the loop over files, from the i-th file on; a
\* failed stat skips the path (cli.py:80-86)
RECURSIVE StatLoop(_, _, _, _, _, _)
StatLoop(fs, i, st, cap, allow, acc) ==
    IF i > Len(fs) THEN acc
    ELSE IF ~st[fs[i]].ok
        THEN StatLoop(fs, i + 1, st, cap, allow, acc)
    ELSE StatLoop(fs, i + 1, st, cap, allow,
                  FilterOne(acc, Slashes(fs[i]), st[fs[i]].size, cap, allow))

StatAndFilter(fs, st, cap, allow) ==
    StatLoop(fs, 1, st, cap, allow,
             [infos |-> EmptyMap, blocked |-> <<>>, diag |-> {}])

----------------------------------------------------------------------------
(* Sequences and sets *)

Range(s) == {s[i] : i \in 1..Len(s)}

\* the elements of a set of paths in ascending order (sorted())
RECURSIVE SortPaths(_)
SortPaths(S) ==
    IF S = {} THEN <<>>
    ELSE LET m == CHOOSE x \in S : \A y \in S \ {x} : StrLess(x, y)
         IN  <<m>> \o SortPaths(S \ {m})

\* s[:n]
Take(s, n) == SubSeq(s, 1, Min2(n, Len(s)))

\* dict iteration order of info_map: insertion order, the order of files
InfoKeys(fs, infos) == SelectSeq(fs, LAMBDA p : p \in DOMAIN infos)

----------------------------------------------------------------------------
(* Load and redact *)

\* what a worker returns: the redacted text and the number of redactions
WorkerResults ==
    { [text |-> T_short, count |-> 0], [text |-> T_long, count |-> 1] }

Pending == [st |-> "pending", text |-> None, count |-> 0]
Raised  == [st |-> "raised", text |-> None, count |-> 0]
Done(r) == [st |-> "done", text |-> Some(r.text), count |-> r.count]
Collected(f) == [f EXCEPT !.st = "collected"]

\* the REDACTED diagnostic of a worker (cli.py:107-108)
RedactedDiag(rel, count) ==
    IF count > 0 THEN {Diag("REDACTED", rel, 0)} ELSE {}

----------------------------------------------------------------------------
(* Early-fit gate *)

\* the contents of the records of infos that have one, in dict order
RECURSIVE ContentsOf(_, _)
ContentsOf(keys, infos) ==
    IF keys = <<>> THEN <<>>
    ELSE (IF infos[Head(keys)].content # None
              THEN <<infos[Head(keys)].content[1]>> ELSE <<>>)
         \o ContentsOf(Tail(keys), infos)

\* the texts fits_early counts (cli.py:120-123)
EarlyTexts(req, ov, fs, infos) ==
    <<ANALYSIS_SYSTEM, req, ov>> \o ContentsOf(InfoKeys(fs, infos), infos)

\* fits_early with the loop over infos.values() left out
FitsEarly_NoContents(req, ov, fs, infos, h, enc) ==
    CountTokens(<<ANALYSIS_SYSTEM, req, ov>>, enc) <= Budget(h)

\* cli.fits_early
FitsEarly(req, ov, fs, infos, h, enc) ==
    CountTokens(EarlyTexts(req, ov, fs, infos), enc) <= Budget(h)

----------------------------------------------------------------------------
(* Bundle assembler *)

\* cli.cxml_bundle: the rels whose content is written, in list order
RECURSIVE CxmlBundle(_, _)
CxmlBundle(list, infos) ==
    IF list = <<>> THEN <<>>
    ELSE LET rel == Head(list)[2] IN
         (IF rel \in DOMAIN infos /\ infos[rel].content # None
              THEN <<rel>> ELSE <<>>)
         \o CxmlBundle(Tail(list), infos)

\* [(100, r) for r in info_map] (cli.py:268)
WholeCorpus(fs, infos) ==
    LET keys == InfoKeys(fs, infos)
    IN  [i \in 1..Len(keys) |-> <<100, keys[i]>>]

----------------------------------------------------------------------------
(* Ranking oracle answers *)

\* one line of an oracle answer: ok is FALSE for a line parse_ranked_lines
\* drops (no separator, or a priority that is no integer)
Line(pr, rest) == [ok |-> TRUE, pr |-> pr, rest |-> rest]
BadLine == [ok |-> FALSE, pr |-> 0, rest |-> <<>>]

\* the sort key (-priority, path) of parse_ranked_lines and fallback_mode_b
RankedLess(a, b) == a[1] > b[1] \/ (a[1] = b[1] /\ StrLess(a[2], b[2]))

RECURSIVE InsertRanked(_, _)
InsertRanked(x, s) ==
    IF s = <<>> THEN <<x>>
    ELSE IF RankedLess(x, Head(s)) THEN <<x>> \o s
    ELSE <<Head(s)>> \o InsertRanked(x, Tail(s))

\* list.sort(key=lambda x: (-x[0], x[1])), stable
RECURSIVE SortRanked(_)
SortRanked(s) ==
    IF s = <<>> THEN <<>>
    ELSE InsertRanked(s[Len(s)], SortRanked(SubSeq(s, 1, Len(s) - 1)))

\* the loop of parse_ranked_lines: drop bad lines, clamp to 1..100
RECURSIVE ParseLines(_)
ParseLines(lines) ==
    IF lines = <<>> THEN <<>>
    ELSE (IF Head(lines).ok
              THEN << <<Max2(1, Min2(100, Head(lines).pr)), Head(lines).rest>> >>
              ELSE <<>>)
         \o ParseLines(Tail(lines))

\* util.parse_ranked_lines
ParseRankedLines(lines) == SortRanked(ParseLines(lines))

\* selector.stage1_select / stage2_select: [] when the client is not ready
StageSelect(ready, answer) ==
    IF ~ready THEN <<>> ELSE ParseRankedLines(answer)

\* llm.py:58-60: generate_content raised; generate reports it and
\* returns "", which has no lines
GenerateFailed == <<>>

\* the outcomes of one stage's oracle call: <<outcome, text returned>>
StageCalls(ready, answers) ==
    IF ~ready THEN {<<"unready", GenerateFailed>>}
    ELSE {<<"ok", ans>> : ans \in answers} \cup {<<"raised", GenerateFailed>>}

\* llm.py:59: the line generate writes when generate_content raised
LlmDiag(outcome) ==
    IF outcome = "raised" THEN {Diag("LLM error", <<>>, 0)} ELSE {}

----------------------------------------------------------------------------
(* Stage-1 expansion and prioritisation *)

\* cli.py:286
PatternMatches(rel, pat) ==
    LET pat_norm == Slashes(pat)
    IN  StartsWith(rel, RStrip(pat_norm, {"*", "/"})) \/ FnMatch(rel, pat_norm)

\* the inner loop over all_rels (cli.py:285-287)
MatchesOf(all_rels, pat) == SelectSeq(all_rels, LAMBDA rel : PatternMatches(rel, pat))

\* the outer loop over st1[:max_stage1] (cli.py:283-289)
RECURSIVE ExpandLoop(_, _, _, _, _)
ExpandLoop(pats, i, all_rels, max1, acc) ==
    IF i > Len(pats) THEN acc
    ELSE LET acc2 == acc \o MatchesOf(all_rels, pats[i][2])
         IN  IF Len(acc2) >= max1 THEN acc2
             ELSE ExpandLoop(pats, i + 1, all_rels, max1, acc2)

\* the expansion without the "take all" fallback of cli.py:290-292
Expand_PatternsOnly(st1, fs, max1, max2) ==
    LET all_rels == [i \in 1..Len(fs) |-> Slashes(fs[i])]
    IN  ExpandLoop(Take(st1, max1), 1, all_rels, max1, <<>>)

\* cli.py:280-292
Expand(st1, fs, max1, max2) ==
    LET all_rels == [i \in 1..Len(fs) |-> Slashes(fs[i])]
        e == ExpandLoop(Take(st1, max1), 1, all_rels, max1, <<>>)
    IN  IF e = <<>> THEN Take(all_rels, max2) ELSE e

\* cli.py:298
Prioritize(st2, exp, max2) ==
    IF st2 # <<>> THEN st2
    ELSE LET e == Take(exp, max2) IN [i \in 1..Len(e) |-> <<50, e[i]>>]

----------------------------------------------------------------------------
(* Budgeted packer *)

\* cli.py:181, the candidates the grouping keeps
Packable(rel, infos) == rel \in DOMAIN infos /\ infos[rel].content # None

\* len(info_map[r].content or "")
ContentLen(rel, infos) ==
    IF infos[rel].content = None THEN 0 ELSE infos[rel].content[1].len

\* info_map[r].content or ""
ContentOrEmpty(rel, infos) ==
    IF infos[rel].content = None
        THEN [len |-> 0, enc |-> 0, refs |-> {}]
        ELSE infos[rel].content[1]

\* grouped[pr]: the packable rels of priority pr, in list order (cli.py:179-182)
RECURSIVE GroupOf(_, _, _)
GroupOf(list, pr, infos) ==
    IF list = <<>> THEN <<>>
    ELSE (IF Head(list)[1] = pr /\ Packable(Head(list)[2], infos)
              THEN <<Head(list)[2]>> ELSE <<>>)
         \o GroupOf(Tail(list), pr, infos)

\* the insertion of a sort by content length descending
RECURSIVE InsertByLen_Desc(_, _, _)
InsertByLen_Desc(x, s, infos) ==
    IF s = <<>> THEN <<x>>
    ELSE IF ContentLen(x, infos) > ContentLen(Head(s), infos) THEN <<x>> \o s
    ELSE <<Head(s)>> \o InsertByLen_Desc(x, Tail(s), infos)

RECURSIVE InsertByLen(_, _, _)
InsertByLen(x, s, infos) ==
    IF s = <<>> THEN <<x>>
    ELSE IF ContentLen(x, infos) < ContentLen(Head(s), infos) THEN <<x>> \o s
    ELSE <<Head(s)>> \o InsertByLen(x, Tail(s), infos)

\* sorted(grouped[pr], key=lambda r: len(content)), stable (cli.py:186)
RECURSIVE SortByLen(_, _)
SortByLen(s, infos) ==
    IF s = <<>> THEN <<>>
    ELSE InsertByLen(s[Len(s)], SortByLen(SubSeq(s, 1, Len(s) - 1), infos), infos)

\* the keys of grouped
Tiers(list, infos) ==
    {list[i][1] : i \in {j \in 1..Len(list) : Packable(list[j][2], infos)}}

\* the candidates in the order the two loops visit them (cli.py:185-187)
RECURSIVE VisitOrder(_, _, _)
VisitOrder(tiers, list, infos) ==
    IF tiers = {} THEN <<>>
    ELSE LET pr == CHOOSE x \in tiers : \A y \in tiers : x >= y
             rels == SortByLen(GroupOf(list, pr, infos), infos)
         IN  [i \in 1..Len(rels) |-> <<pr, rels[i]>>]
             \o VisitOrder(tiers \ {pr}, list, infos)

PackQueue(list, infos) == VisitOrder(Tiers(list, infos), list, infos)

\* texts = [ANALYSIS_SYSTEM, request, overview] (cli.py:184)
BaseTexts(req, ov) == <<ANALYSIS_SYSTEM, req, ov>>

\* the test on the candidate's content alone, not on the trial set
Accepts_ContentOnly(ts, content, h, enc) == CountTokens(<<content>>, enc) <= Budget(h)

\* the test with the comparison turned round
Accepts_Inverted(ts, content, h, enc) == CountTokens(Append(ts, content), enc) >= Budget(h)

\* the test of cli.py:189-190 on the trial set
Accepts(ts, content, h, enc) == CountTokens(Append(ts, content), enc) <= Budget(h)

\* the body of the inner loop for one candidate (cli.py:188-195);
\* st is [texts, out]
PackOne(st, cand, infos, h, enc) ==
    LET c == ContentOrEmpty(cand[2], infos)
    IN  IF Accepts(st.texts, c, h, enc)
            THEN [texts |-> Append(st.texts, c), out |-> Append(st.out, cand)]
            ELSE st

RECURSIVE PackLoop(_, _, _, _, _, _)
PackLoop(q, i, st, infos, h, enc) ==
    IF i > Len(q) THEN st
    ELSE PackLoop(q, i + 1, PackOne(st, q[i], infos, h, enc), infos, h, enc)

\* cli.budgeted_pack
BudgetedPack(list, infos, h, req, ov, enc) ==
    PackLoop(PackQueue(list, infos), 1,
             [texts |-> BaseTexts(req, ov), out |-> <<>>], infos, h, enc).out

----------------------------------------------------------------------------
(* Fallback expander (Mode B) *)

TOP_K == 50

MaxOf(S) == CHOOSE x \in S : \A y \in S : x >= y

\* seeds = [r for _, r in seed_ranked[:K] if r in info_map] (cli.py:203-204)
Seeds(seed_ranked, infos) ==
    LET top == Take(seed_ranked, Min2(TOP_K, Len(seed_ranked)))
        kept == SelectSeq(top, LAMBDA c : c[2] \in DOMAIN infos)
    IN  [i \in 1..Len(kept) |-> kept[i][2]]

\* util.best_effort_resolve_refs_to_paths
ResolveRefs(refs, all_paths) ==
    {p \in all_paths :
        \E r \in refs :
            LET base == Lower(Basename(r))
            IN  base # <<>>
                /\ (EndsWith(Lower(p), <<"/">> \o base) \/ EndsWith(Lower(p), base))}

\* next((p for p, r in seed_ranked if r == s), 50) (cli.py:211)
BasePr(seed_ranked, s) ==
    IF \E i \in 1..Len(seed_ranked) : seed_ranked[i][2] = s
        THEN seed_ranked[CHOOSE i \in 1..Len(seed_ranked) :
                 /\ seed_ranked[i][2] = s
                 /\ \A j \in 1..(i - 1) : seed_ranked[j][2] # s][1]
        ELSE 50

\* a dependency scored like its seed
DepScore_NoPenalty(base_pr) == Max2(1, base_pr)

\* the score one seed gives its dependencies (cli.py:213)
DepScore(base_pr) == Max2(1, base_pr - 5)

\* dep_scores after the loop over seeds (cli.py:206-213)
DepScores(seed_ranked, infos) ==
    LET seeds == Range(Seeds(seed_ranked, infos))
        deps(s) == ResolveRefs(ContentOrEmpty(s, infos).refs, DOMAIN infos)
        hit == UNION {deps(s) : s \in seeds}
    IN  [p \in hit |->
            MaxOf({DepScore(BasePr(seed_ranked, s)) : s \in {t \in seeds : p \in deps(t)}})]

\* merged = {r: p for p, r in seed_ranked}: the last entry of a path wins
SeedScore(seed_ranked, r) ==
    seed_ranked[CHOOSE i \in 1..Len(seed_ranked) :
        /\ seed_ranked[i][2] = r
        /\ \A j \in (i + 1)..Len(seed_ranked) : seed_ranked[j][2] # r][1]

\* merged built from dep_scores alone, the original candidates left out
Merged_DepsOnly(seed_ranked, infos) == DepScores(seed_ranked, infos)

\* merged after the loop over dep_scores (cli.py:215-217)
Merged(seed_ranked, infos) ==
    LET dep == DepScores(seed_ranked, infos)
        named == {seed_ranked[i][2] : i \in 1..Len(seed_ranked)}
    IN  [r \in named \cup DOMAIN dep |->
            IF r \in DOMAIN dep
                THEN Max2(IF r \in named THEN SeedScore(seed_ranked, r) ELSE 0, dep[r])
                ELSE SeedScore(seed_ranked, r)]

RECURSIVE SeqOfMap(_, _)
SeqOfMap(m, keys) ==
    IF keys = {} THEN <<>>
    ELSE LET k == CHOOSE x \in keys : TRUE
         IN  << <<m[k], k>> >> \o SeqOfMap(m, keys \ {k})

\* cli.fallback_mode_b
FallbackModeB(seed_ranked, infos) ==
    LET m == Merged(seed_ranked, infos)
    IN  SortRanked(SeqOfMap(m, DOMAIN m))

----------------------------------------------------------------------------
(* Configuration: argparse, .vibe.yml and their resolution *)

\* the keys main resolves from the flags and the config file
CfgKeys == {"headroom", "file_cap_bytes", "selector_model", "analysis_model",
            "max_stage1", "max_stage2", "allow_secrets"}

\* load_cfg's built-in defaults (cli.py:45-52), headroom in hundredths
DefaultCfg ==
    [headroom |-> 15, file_cap_bytes |-> 524288,
     selector_model |-> "flash-1m", analysis_model |-> "pro-1m",
     max_stage1 |-> 2000, max_stage2 |-> 20000, allow_secrets |-> FALSE]

\* the default= of each add_argument (cli.py:225-232)
ArgDefaults ==
    [headroom |-> 15, file_cap_bytes |-> 524288,
     selector_model |-> "flash-1m", analysis_model |-> "pro-1m",
     max_stage1 |-> 2000, max_stage2 |-> 20000, allow_secrets |-> FALSE]

\* no flag given / no key set
NoFlags == [k \in CfgKeys |-> None]
NoYml == [k \in CfgKeys |-> None]

\* ap.parse_args: a flag that is absent takes its default=, so no
\* attribute of args is ever None
ParseArgs(av) ==
    [k \in CfgKeys |-> IF av[k] # None THEN Some(av[k][1]) ELSE Some(ArgDefaults[k])]

\* cli.load_cfg: the known keys of .vibe.yml override the defaults
LoadCfg(y) ==
    [k \in CfgKeys |-> IF y[k] # None THEN y[k][1] ELSE DefaultCfg[k]]

\* Python truthiness of an int and of a str
TruthyInt(n) == n # 0
TruthyStr(t) == t # ""

\* `a or b` on ints and on strs
OrInt(a, b) == IF TruthyInt(a) THEN a ELSE b
OrStr(a, b) == IF TruthyStr(a) THEN a ELSE b

\* `a if a is not None else b`
IfNotNone(a, b) == IF a # None THEN a[1] ELSE b

\* cli.py:245-252
ResolveCfg(av, y) ==
    LET args == ParseArgs(av)
        cfg == LoadCfg(y)
    IN  [headroom |-> IfNotNone(args.headroom, cfg.headroom),
         file_cap_bytes |-> IfNotNone(args.file_cap_bytes, cfg.file_cap_bytes),
         selector_model |-> OrStr(args.selector_model[1], cfg.selector_model),
         analysis_model |-> OrStr(args.analysis_model[1], cfg.analysis_model),
         max_stage1 |-> OrInt(args.max_stage1[1], cfg.max_stage1),
         max_stage2 |-> OrInt(args.max_stage2[1], cfg.max_stage2),
         allow_secrets |-> (args.allow_secrets[1] \/ cfg.allow_secrets)]

\* the resolved values as main's locals
Resolved(r) ==
    /\ headroom = r.headroom
    /\ file_cap = r.file_cap_bytes
    /\ selector_model = r.selector_model
    /\ analysis_model = r.analysis_model
    /\ max_stage1 = r.max_stage1
    /\ max_stage2 = r.max_stage2
    /\ allow_secrets = r.allow_secrets

----------------------------------------------------------------------------
(* Inputs *)

\* --headroom 0.98 and 0.99
Headrooms == {98, 99}

\* the default of --file-cap-bytes
DEFAULT_FILE_CAP == 524288

\* <<max_stage1, max_stage2>>: the defaults, and both caps set to 1
StageCaps == {<<2000, 20000>>, <<1, 1>>}

\* the command lines of the runs explored: --headroom always given, the
\* stage caps given or left to their defaults, --allow-secrets or not
RunFlags ==
    {[NoFlags EXCEPT !.headroom = Some(h),
                     !.max_stage1 = IF caps[1] = 2000 THEN None ELSE Some(caps[1]),
                     !.max_stage2 = IF caps[2] = 20000 THEN None ELSE Some(caps[2]),
                     !.allow_secrets = IF a THEN Some(TRUE) ELSE None] :
        h \in Headrooms, caps \in StageCaps, a \in BOOLEAN}

\* the outcome of the GeminiClient call of each stage: "none" before the
\* call, "unready" when ready() is false, "raised" when generate_content
\* raises, "ok" when it returns
NoCalls == [stage1 |-> "none", stage2 |-> "none", analysis |-> "none"]

Request == [len |-> 16, enc |-> 4, refs |-> {}]
Overview == [len |-> 400, enc |-> 100, refs |-> {}]

G_bdir  == <<"b", "/">>
G_py    == <<"*", ".", "p", "y">>
G_bstar == <<"b", "/", "*">>

\* answers of the ranking oracle to stage 1 (an answer without a line
\* parses like the "" of a failed call: GenerateFailed)
Stage1Answers ==
    { <<Line(90, G_bdir)>>,
      <<Line(90, G_bstar), BadLine, Line(150, G_py)>> }

RECURSIVE SeqOfSet(_)
SeqOfSet(S) ==
    IF S = {} THEN <<>>
    ELSE LET x == CHOOSE y \in S : TRUE IN <<x>> \o SeqOfSet(S \ {x})

\* the answers of at most MaxRanked lines drawn from a pool of lines
AnswersFrom(pool) ==
    {SeqOfSet(S) : S \in {T \in SUBSET pool : Cardinality(T) <= MaxRanked}}

\* lines of the stage-2 answers of a whole run: an admitted file, a path
\* that may be blocked, a path that was never discovered
Stage2Lines == {Line(90, P_a), Line(150, P_env), Line(40, P_ghost)}

\* lines of the stage-2 answers when the packer is explored on its own
PackLines == {Line(pr, p) : pr \in {3, 90}, p \in {P_a, P_bc, P_bd}}

----------------------------------------------------------------------------
(* The run of cli.main *)

Init ==
    /\ pc = "discover"
    /\ argv \in RunFlags
    /\ yml = NoYml
    /\ Resolved(ResolveCfg(argv, yml))
    /\ encLoaded \in BOOLEAN
    /\ clientReady \in BOOLEAN
    /\ request = Request
    /\ overview = Overview
    /\ files = <<>>
    /\ info_map = EmptyMap
    /\ blocked = <<>>
    /\ futures = EmptyMap
    /\ expanded = <<>>
    /\ prioritized = <<>>
    /\ pass = 0
    /\ offered = <<>>
    /\ queue = <<>>
    /\ qi = 0
    /\ texts = <<>>
    /\ out = <<>>
    /\ packed = <<>>
    /\ packed1 = <<>>
    /\ ranked_b = <<>>
    /\ bundle = <<>>
    /\ stderr = {}
    /\ exitCode = -1
    /\ earlyFit = "unknown"
    /\ stage1Calls = 0
    /\ stage2Calls = 0
    /\ fallbackRuns = 0
    /\ oracle = NoCalls

cfgVars == <<headroom, file_cap, allow_secrets, encLoaded, clientReady,
             max_stage1, max_stage2, request, overview,
             argv, yml, selector_model, analysis_model>>
packVars == <<pass, offered, queue, qi, texts, out, packed, packed1, ranked_b>>
callVars == <<stage1Calls, stage2Calls, fallbackRuns, oracle>>

\* cli.py:256: discover_files returns a sorted list
Discover ==
    /\ pc = "discover"
    /\ \E S \in SUBSET Universe :
        /\ Cardinality(S) <= MaxFiles
        /\ files' = SortPaths(S)
    /\ pc' = "filter"
    /\ UNCHANGED <<cfgVars, packVars, callVars, info_map, blocked, futures,
                   expanded, prioritized, bundle, stderr, exitCode, earlyFit>>

\* cli.py:262: stat_and_filter; each stat fails, or gives a size at or
\* just over the cap
Filter ==
    /\ pc = "filter"
    /\ \E st \in [Range(files) -> {StatFail, StatOk(file_cap), StatOk(file_cap + 1)}] :
        LET r == StatAndFilter(files, st, file_cap, allow_secrets)
        IN  /\ info_map' = r.infos
            /\ blocked' = r.blocked
            /\ stderr' = stderr \cup r.diag
    /\ pc' = "submit"
    /\ UNCHANGED <<cfgVars, packVars, callVars, files, futures, expanded,
                   prioritized, bundle, exitCode, earlyFit>>

\* cli.py:111-112: one future per admitted record
Submit ==
    /\ pc = "submit"
    /\ futures' = [rel \in DOMAIN info_map |-> Pending]
    /\ pc' = "loading"
    /\ UNCHANGED <<cfgVars, packVars, callVars, files, info_map, blocked,
                   expanded, prioritized, bundle, stderr, exitCode, earlyFit>>

\* cli.py:103-109: a worker reads and redacts its file
WorkerReturns(rel) ==
    /\ pc = "loading"
    /\ futures[rel].st = "pending"
    /\ \E r \in WorkerResults :
        /\ futures' = [futures EXCEPT ![rel] = Done(r)]
        /\ stderr' = stderr \cup RedactedDiag(rel, r.count)
    /\ UNCHANGED <<cfgVars, packVars, callVars, pc, files, info_map, blocked,
                   expanded, prioritized, bundle, exitCode, earlyFit>>

\* util.py:107: open() or read() raises in the worker
WorkerRaises(rel) ==
    /\ pc = "loading"
    /\ futures[rel].st = "pending"
    /\ futures' = [futures EXCEPT ![rel] = Raised]
    /\ UNCHANGED <<cfgVars, packVars, callVars, pc, files, info_map, blocked,
                   expanded, prioritized, bundle, stderr, exitCode, earlyFit>>

\* cli.py:113-116: the main thread takes a completed future
Collect(rel) ==
    /\ pc = "loading"
    /\ futures[rel].st = "done"
    /\ info_map' = [info_map EXCEPT ![rel].content = futures[rel].text,
                                    ![rel].redactions = futures[rel].count]
    /\ futures' = [futures EXCEPT ![rel] = Collected(@)]
    /\ UNCHANGED <<cfgVars, packVars, callVars, pc, files, blocked, expanded,
                   prioritized, bundle, stderr, exitCode, earlyFit>>

\* cli.py:114: fut.result() re-raises the worker's exception; nothing
\* between there and the interpreter catches it
CollectRaises(rel) ==
    /\ pc = "loading"
    /\ futures[rel].st = "raised"
    /\ pc' = "crashed"
    /\ exitCode' = 1
    /\ UNCHANGED <<cfgVars, packVars, callVars, files, info_map, blocked,
                   futures, expanded, prioritized, bundle, stderr, earlyFit>>

\* load_and_redact returning without waiting for its futures
LoadReturns_NoWait ==
    /\ pc = "loading"
    /\ pc' = "fits"
    /\ UNCHANGED <<cfgVars, packVars, callVars, files, info_map, blocked,
                   futures, expanded, prioritized, bundle, stderr, exitCode,
                   earlyFit>>

\* load_and_redact returns once every future was taken
LoadReturns ==
    /\ pc = "loading"
    /\ \A rel \in DOMAIN futures : futures[rel].st = "collected"
    /\ pc' = "fits"
    /\ UNCHANGED <<cfgVars, packVars, callVars, files, info_map, blocked,
                   futures, expanded, prioritized, bundle, stderr, exitCode,
                   earlyFit>>

\* cli.py:266
EarlyFitGate ==
    /\ pc = "fits"
    /\ IF FitsEarly(request, overview, files, info_map, headroom, encLoaded)
           THEN earlyFit' = "yes" /\ pc' = "bundle"
           ELSE earlyFit' = "no" /\ pc' = "stage1"
    /\ UNCHANGED <<cfgVars, packVars, callVars, files, info_map, blocked,
                   futures, expanded, prioritized, bundle, stderr, exitCode>>

\* cli.py:278-292: stage 1 and the expansion of its patterns
Stage1 ==
    /\ pc = "stage1"
    /\ \E call \in StageCalls(clientReady, Stage1Answers) :
        /\ expanded' = Expand(StageSelect(clientReady, call[2]), files,
                              max_stage1, max_stage2)
        /\ oracle' = [oracle EXCEPT !.stage1 = call[1]]
        /\ stderr' = stderr \cup LlmDiag(call[1])
    /\ stage1Calls' = stage1Calls + 1
    /\ pc' = "stage2"
    /\ UNCHANGED <<cfgVars, packVars, stage2Calls, fallbackRuns, files,
                   info_map, blocked, futures, prioritized, bundle,
                   exitCode, earlyFit>>

\* cli.py:295-301: stage 2, the prioritized list, the call of the packer
Stage2 ==
    /\ pc = "stage2"
    /\ \E call \in StageCalls(clientReady, AnswersFrom(Stage2Lines)) :
        /\ prioritized' = Prioritize(StageSelect(clientReady, call[2]),
                                     expanded, max_stage2)
        /\ oracle' = [oracle EXCEPT !.stage2 = call[1]]
        /\ stderr' = stderr \cup LlmDiag(call[1])
    /\ stage2Calls' = stage2Calls + 1
    /\ pass' = 1
    /\ offered' = prioritized'
    /\ pc' = "pack"
    /\ UNCHANGED <<cfgVars, queue, qi, texts, out, packed, packed1, ranked_b,
                   stage1Calls, fallbackRuns, files, info_map, blocked,
                   futures, expanded, bundle, exitCode, earlyFit>>

\* cli.py:179-186: budgeted_pack groups and orders its candidates
PackStart ==
    /\ pc = "pack"
    /\ queue' = PackQueue(offered, info_map)
    /\ qi' = 0
    /\ texts' = BaseTexts(request, overview)
    /\ out' = <<>>
    /\ pc' = "packing"
    /\ UNCHANGED <<cfgVars, callVars, pass, offered, packed, packed1, ranked_b,
                   files, info_map, blocked, futures, expanded, prioritized,
                   bundle, stderr, exitCode, earlyFit>>

\* cli.py:187-195: one candidate is tried
PackStep ==
    /\ pc = "packing"
    /\ qi < Len(queue)
    /\ LET r == PackOne([texts |-> texts, out |-> out], queue[qi + 1],
                        info_map, headroom, encLoaded)
       IN  texts' = r.texts /\ out' = r.out
    /\ qi' = qi + 1
    /\ UNCHANGED <<cfgVars, callVars, pc, pass, offered, queue, packed,
                   packed1, ranked_b, files, info_map, blocked, futures,
                   expanded, prioritized, bundle, stderr, exitCode, earlyFit>>

\* the first pass always followed by the fallback
PackReturns_AlwaysFallback ==
    /\ pc = "packing"
    /\ qi = Len(queue)
    /\ packed' = out
    /\ packed1' = IF pass = 1 THEN out ELSE packed1
    /\ pc' = IF pass = 1 THEN "fallback" ELSE "bundle"
    /\ UNCHANGED <<cfgVars, callVars, pass, offered, queue, qi, texts, out,
                   ranked_b, files, info_map, blocked, futures, expanded,
                   prioritized, bundle, stderr, exitCode, earlyFit>>

\* cli.py:196 and 301-304, 307: budgeted_pack returns; after the first
\* pass main compares the lengths
PackReturns ==
    /\ pc = "packing"
    /\ qi = Len(queue)
    /\ packed' = out
    /\ packed1' = IF pass = 1 THEN out ELSE packed1
    /\ pc' = IF pass = 1 /\ Len(out) < Len(prioritized)
                 THEN "fallback" ELSE "bundle"
    /\ UNCHANGED <<cfgVars, callVars, pass, offered, queue, qi, texts, out,
                   ranked_b, files, info_map, blocked, futures, expanded,
                   prioritized, bundle, stderr, exitCode, earlyFit>>

\* cli.py:305-307: the fallback expander and the second call of the packer
Fallback ==
    /\ pc = "fallback"
    /\ stderr' = stderr \cup {Diag("FALLBACK", <<>>, 0)}
    /\ ranked_b' = FallbackModeB(prioritized, info_map)
    /\ fallbackRuns' = fallbackRuns + 1
    /\ pass' = 2
    /\ offered' = ranked_b'
    /\ pc' = "pack"
    /\ UNCHANGED <<cfgVars, stage1Calls, stage2Calls, oracle, queue, qi,
                   texts, out, packed, packed1, files, info_map, blocked,
                   futures, expanded, prioritized, bundle, exitCode, earlyFit>>

\* cli.py:268 and 310: cxml_bundle on the whole corpus or on packed
Bundle ==
    /\ pc = "bundle"
    /\ bundle' = CxmlBundle(IF earlyFit = "yes"
                                THEN WholeCorpus(files, info_map) ELSE packed,
                            info_map)
    /\ pc' = "analyze"
    /\ UNCHANGED <<cfgVars, packVars, callVars, files, info_map, blocked,
                   futures, expanded, prioritized, stderr, exitCode, earlyFit>>

\* the TRIMMED diagnostics written for the candidates that were included
Trimmed_Included(list, included, infos) ==
    {Diag("TRIMMED", list[i][2], list[i][1]) :
        i \in {j \in 1..Len(list) :
                  list[j][2] \in included /\ list[j][2] \in DOMAIN infos}}

\* cli.py:318-321: the TRIMMED diagnostics
Trimmed(list, included, infos) ==
    {Diag("TRIMMED", list[i][2], list[i][1]) :
        i \in {j \in 1..Len(list) :
                  list[j][2] \notin included /\ list[j][2] \in DOMAIN infos}}

\* cli.py:269-275 and 311-322: analyze; the client is not ready and
\* analyze raises, or generate returns (an answer, or "" after an error
\* it reports itself)
Analyze ==
    /\ pc = "analyze"
    /\ IF ~clientReady
           THEN /\ stderr' = stderr \cup {Diag("Analysis error", <<>>, 0)}
                /\ oracle' = [oracle EXCEPT !.analysis = "unready"]
                /\ exitCode' = 1
           ELSE \E outcome \in {"ok", "raised"} :
                /\ stderr' = stderr
                       \cup LlmDiag(outcome)
                       \cup (IF earlyFit = "yes" THEN {}
                             ELSE Trimmed(prioritized,
                                          {packed[i][2] : i \in 1..Len(packed)},
                                          info_map))
                /\ oracle' = [oracle EXCEPT !.analysis = outcome]
                /\ exitCode' = 0
    /\ pc' = "done"
    /\ UNCHANGED <<cfgVars, packVars, stage1Calls, stage2Calls, fallbackRuns,
                   files, info_map, blocked, futures, expanded, prioritized,
                   bundle, earlyFit>>

Next ==
    \/ Discover
    \/ Filter
    \/ Submit
    \/ \E rel \in DOMAIN futures : WorkerReturns(rel)
    \/ \E rel \in DOMAIN futures : WorkerRaises(rel)
    \/ \E rel \in DOMAIN futures : Collect(rel)
    \/ \E rel \in DOMAIN futures : CollectRaises(rel)
    \/ LoadReturns
    \/ EarlyFitGate
    \/ Stage1
    \/ Stage2
    \/ PackStart
    \/ PackStep
    \/ PackReturns
    \/ Fallback
    \/ Bundle
    \/ Analyze

Spec == Init /\ [][Next]_vars

----------------------------------------------------------------------------
(* The packer and the fallback on their own: the run from cli.py:301 on,  *)
(* for every admitted mapping of at most MaxPackFiles loaded files that   *)
(* failed the early-fit gate and every stage-2 answer over PackLines      *)

\* the files that can be admitted when allow_secrets is false
PackUniverse ==
    {p \in {P_a, P_bc, P_bd, P_e, P_env} : ~IsSecretBlocklisted(p)}

Loaded(rel, size, r) ==
    [FileInfo(rel, size) EXCEPT !.content = Some(r.text), !.redactions = r.count]

InitPack ==
    /\ pc = "pack"
    /\ \E h \in Headrooms : argv = [NoFlags EXCEPT !.headroom = Some(h)]
    /\ yml = NoYml
    /\ Resolved(ResolveCfg(argv, yml))
    /\ encLoaded \in BOOLEAN
    /\ clientReady = TRUE
    /\ request = Request
    /\ overview = Overview
    /\ \E S \in SUBSET PackUniverse :
        /\ Cardinality(S) <= MaxPackFiles
        /\ files = SortPaths(S)
        /\ \E c \in [S -> WorkerResults] :
            /\ info_map = [rel \in S |-> Loaded(rel, file_cap, c[rel])]
            /\ futures = [rel \in S |-> Collected(Done(c[rel]))]
            /\ stderr = UNION {RedactedDiag(rel, c[rel].count) : rel \in S}
    /\ ~FitsEarly(request, overview, files, info_map, headroom, encLoaded)
    /\ earlyFit = "no"
    /\ blocked = <<>>
    /\ expanded = Expand(<<>>, files, max_stage1, max_stage2)
    /\ \E ans \in AnswersFrom(PackLines) :
        prioritized = Prioritize(StageSelect(clientReady, ans), expanded, max_stage2)
    /\ pass = 1
    /\ offered = prioritized
    /\ queue = <<>>
    /\ qi = 0
    /\ texts = <<>>
    /\ out = <<>>
    /\ packed = <<>>
    /\ packed1 = <<>>
    /\ ranked_b = <<>>
    /\ bundle = <<>>
    /\ exitCode = -1
    /\ stage1Calls = 1
    /\ stage2Calls = 1
    /\ fallbackRuns = 0
    /\ oracle = [NoCalls EXCEPT !.stage1 = "ok", !.stage2 = "ok"]

NextPack ==
    \/ PackStart
    \/ PackStep
    \/ PackReturns
    \/ Fallback
    \/ Bundle
    \/ Analyze

SpecPack == InitPack /\ [][NextPack]_vars

----------------------------------------------------------------------------
(* The resolution of the configuration on its own: cli.py:237-252 for     *)
(* every combination of flags given and keys set in .vibe.yml              *)

\* a flag is absent or given; --max-stage1 may be given as 0
CfgFlags ==
    {[headroom |-> h, file_cap_bytes |-> c, selector_model |-> sm,
      analysis_model |-> am, max_stage1 |-> m1, max_stage2 |-> m2,
      allow_secrets |-> a] :
        h \in {None, Some(98)}, c \in {None, Some(1024)},
        sm \in {None, Some("flash-x")}, am \in {None, Some("pro-x")},
        m1 \in {None, Some(0), Some(7)}, m2 \in {None, Some(5)},
        a \in {None, Some(TRUE)}}

\* a key is missing from the file or set there
CfgYmls ==
    {[headroom |-> h, file_cap_bytes |-> c, selector_model |-> sm,
      analysis_model |-> am, max_stage1 |-> m1, max_stage2 |-> m2,
      allow_secrets |-> a] :
        h \in {None, Some(50)}, c \in {None, Some(2048)},
        sm \in {None, Some("flash-y")}, am \in {None, Some("pro-y")},
        m1 \in {None, Some(9)}, m2 \in {None, Some(6)},
        a \in {None, Some(TRUE)}}

\* main has parsed nothing yet; the locals hold load_cfg's defaults
InitCfg ==
    /\ pc = "config"
    /\ argv \in CfgFlags
    /\ yml \in CfgYmls
    /\ Resolved(DefaultCfg)
    /\ encLoaded = TRUE
    /\ clientReady = TRUE
    /\ request = Request
    /\ overview = Overview
    /\ files = <<>>
    /\ info_map = EmptyMap
    /\ blocked = <<>>
    /\ futures = EmptyMap
    /\ expanded = <<>>
    /\ prioritized = <<>>
    /\ pass = 0
    /\ offered = <<>>
    /\ queue = <<>>
    /\ qi = 0
    /\ texts = <<>>
    /\ out = <<>>
    /\ packed = <<>>
    /\ packed1 = <<>>
    /\ ranked_b = <<>>
    /\ bundle = <<>>
    /\ stderr = {}
    /\ exitCode = -1
    /\ earlyFit = "unknown"
    /\ stage1Calls = 0
    /\ stage2Calls = 0
    /\ fallbackRuns = 0
    /\ oracle = NoCalls

\* cli.py:237-252: parse_args, load_cfg and the seven resolutions
LoadConfig ==
    /\ pc = "config"
    /\ LET r == ResolveCfg(argv, yml)
       IN  /\ headroom' = r.headroom
           /\ file_cap' = r.file_cap_bytes
           /\ selector_model' = r.selector_model
           /\ analysis_model' = r.analysis_model
           /\ max_stage1' = r.max_stage1
           /\ max_stage2' = r.max_stage2
           /\ allow_secrets' = r.allow_secrets
    /\ pc' = "discover"
    /\ UNCHANGED <<argv, yml, encLoaded, clientReady, request, overview,
                   packVars, callVars, files, info_map, blocked, futures,
                   expanded, prioritized, bundle, stderr, exitCode, earlyFit>>

NextCfg == LoadConfig

SpecCfg == InitCfg /\ [][NextCfg]_vars

----------------------------------------------------------------------------
(* Properties *)

Admitted == DOMAIN info_map

\* the token count of {system preamble, request, overview}
BaseTokens ==
    TokensOf(ANALYSIS_SYSTEM, encLoaded) + TokensOf(request, encLoaded)
    + TokensOf(overview, encLoaded)

RECURSIVE SumOver(_, _)
SumOver(S, f) ==
    IF S = {} THEN 0
    ELSE LET x == CHOOSE y \in S : TRUE IN f[x] + SumOver(S \ {x}, f)

\* n tokens are within (1 - headroom) * 1,000,000, headroom in hundredths
WithinLimit(n) == n * 100 <= (100 - headroom) * 1000000

\* C1: every record the admission filter puts in its output mapping has
\* size <= fileCapBytes and, when allowSecrets is false, a relative path
\* that does not match the secret blocklist.
C1_AdmittedWithinCapAndUnblocked ==
    \A rel \in Admitted :
        /\ info_map[rel].size <= file_cap
        /\ ~allow_secrets => ~IsSecretBlocklisted(rel)
        /\ info_map[rel].path = rel

\* the filter has returned: it admitted a file and excluded another
C1_Witness ==
    /\ pc = "submit"
    /\ Admitted # {}
    /\ \E d \in stderr : d.kind \in {"SKIPPED", "BLOCKED"}

\* C2: a run takes the early-fit path exactly when the token count of
\* {system preamble, request, overview, content of every admitted record}
\* is <= (1 - headroom) * 1,000,000, and in such a run neither selection
\* stage is ever invoked.
C2_EarlyFitIffWithinBudget ==
    /\ earlyFit # "unknown" =>
        /\ \A rel \in Admitted : info_map[rel].content # None
        /\ (earlyFit = "yes") <=>
               WithinLimit(BaseTokens
                   + SumOver(Admitted,
                         [rel \in Admitted |->
                             TokensOf(info_map[rel].content[1], encLoaded)]))
    /\ earlyFit = "yes" => stage1Calls = 0 /\ stage2Calls = 0
    /\ earlyFit = "unknown" => stage1Calls = 0 /\ stage2Calls = 0
    /\ pc \in {"stage1", "stage2", "pack", "packing", "fallback"} => earlyFit = "no"

\* an early-fit run of two admitted files has ended
C2_Witness ==
    /\ pc = "done"
    /\ earlyFit = "yes"
    /\ Cardinality(Admitted) >= 2

\* C3: every path whose content is written into the final bundle has a
\* FileRecord in the admitted mapping with content present, oversized =
\* false and secretBlocked = false, whatever the ranking stages return.
C3_BundleOnlyAdmittedContent ==
    \A i \in 1..Len(bundle) :
        /\ bundle[i] \in Admitted
        /\ info_map[bundle[i]].content # None
        /\ ~info_map[bundle[i]].oversized
        /\ ~info_map[bundle[i]].blocked_secret
        /\ allow_secrets \/ ~IsSecretBlocklisted(bundle[i])

\* after the fallback, a bundle was written although stage 2 had ranked a
\* path that was never admitted
C3_Witness ==
    /\ pc = "done"
    /\ pass = 2
    /\ bundle # <<>>
    /\ \E i \in 1..Len(prioritized) : prioritized[i][2] \notin Admitted

\* the contents of the entries of a list of <<priority, rel>>
ContentsOfList(list) ==
    [i \in 1..Len(list) |-> ContentOrEmpty(list[i][2], info_map)]

PathsOf(list) == {list[i][2] : i \in 1..Len(list)}

AfterFirstPass == pass >= 1 /\ pc \in {"fallback", "bundle", "analyze", "done"}
AfterPacking == pass >= 1 /\ pc \in {"bundle", "analyze", "done"}

C4_RunningSet ==
    pc = "packing" =>
        /\ texts = <<ANALYSIS_SYSTEM, request, overview>> \o ContentsOfList(out)
        /\ out # <<>> => WithinLimit(CountTokens(texts, encLoaded))

C4_AcceptStep ==
    pc = "packing" /\ qi' = qi + 1 =>
        LET cand == queue[qi + 1]
            c == ContentOrEmpty(cand[2], info_map)
        IN  IF WithinLimit(CountTokens(texts, encLoaded) + TokensOf(c, encLoaded))
                THEN out' = Append(out, cand) /\ texts' = Append(texts, c)
                ELSE out' = out /\ texts' = texts

\* C4: in the budgeted packer a candidate is accepted exactly when the
\* token count of the running set {system preamble, request, overview,
\* contents accepted so far} plus the candidate's content is
\* <= (1 - headroom) * 1,000,000; so after every step with at least one
\* candidate accepted, the running set is within that limit.
C4_AcceptIffTrialWithinLimit == []C4_RunningSet /\ [][C4_AcceptStep]_vars

\* the pass has accepted a candidate and skipped another
C4_Witness ==
    /\ pc = "packing"
    /\ Len(out) >= 1
    /\ qi > Len(out)

\* C5 as claimed: when allowSecrets is false, a file whose name is .env,
\* wherever it sits under the root, is never part of the final bundle.
C5_EnvNeverBundled ==
    ~allow_secrets =>
        \A i \in 1..Len(bundle) : Basename(bundle[i]) # P_env

\* the headroom values the packer is compared under
CompareHeadrooms == {97, 98, 99}

PackedWith(h) ==
    BudgetedPack(prioritized, info_map, h, request, overview, encLoaded)

TokensPacked(h) == CountTokens(ContentsOfList(PackedWith(h)), encLoaded)

\* the token costs of the candidates never decrease along the order in
\* which the packer visits them
CostsNonDecreasing ==
    LET q == PackQueue(prioritized, info_map)
        cost(i) == TokensOf(ContentOrEmpty(q[i][2], info_map), encLoaded)
    IN  \A i, j \in 1..Len(q) : i < j => cost(i) <= cost(j)

\* C6 as claimed: for the same candidate list, mapping, request and
\* overview and h1 < h2, the packer accepts no more candidates with h2
\* than with h1.
C6_CountMonotone ==
    AfterFirstPass =>
        \A h1, h2 \in CompareHeadrooms :
            h1 < h2 => Len(PackedWith(h2)) <= Len(PackedWith(h1))

\* C6 as amended: for h1 < h2 the token count of the contents accepted
\* with h2 is never greater than with h1, and the number of candidates
\* accepted is never greater when the candidates' token costs do not
\* decrease along the order in which the packer visits them.
C6_TokensMonotone ==
    AfterFirstPass =>
        /\ packed1 = PackedWith(headroom)
        /\ \A h1, h2 \in CompareHeadrooms :
            h1 < h2 =>
                /\ TokensPacked(h2) <= TokensPacked(h1)
                /\ CostsNonDecreasing => Len(PackedWith(h2)) <= Len(PackedWith(h1))

\* the first pass has returned, and a tighter headroom makes the packer
\* accept more candidates than it did
C6_Witness ==
    /\ AfterFirstPass
    /\ \E h \in CompareHeadrooms : h > headroom /\ Len(PackedWith(h)) > Len(packed1)

\* C7: in a run that does not take the early-fit path, the fallback
\* expander runs and the packer runs a second time exactly when the first
\* pass returned strictly fewer entries than the prioritized list;
\* otherwise the first pass's output is the final bundle; the fallback
\* runs at most once per run.
C7_FallbackIffFirstPassTrimmed ==
    /\ fallbackRuns <= 1
    /\ earlyFit # "no" => fallbackRuns = 0 /\ pass = 0
    /\ AfterPacking =>
        /\ packed1 = BudgetedPack(prioritized, info_map, headroom, request,
                                  overview, encLoaded)
        /\ (fallbackRuns = 1) <=> (Len(packed1) < Len(prioritized))
        /\ fallbackRuns = 1 =>
            /\ pass = 2
            /\ Diag("FALLBACK", <<>>, 0) \in stderr
            /\ ranked_b = FallbackModeB(prioritized, info_map)
            /\ packed = BudgetedPack(ranked_b, info_map, headroom, request,
                                     overview, encLoaded)
        /\ fallbackRuns = 0 => pass = 1 /\ packed = packed1
    /\ pc \in {"analyze", "done"} /\ earlyFit = "no" =>
        bundle = [i \in 1..Len(packed) |-> packed[i][2]]

\* a run has ended after the fallback re-packed a non-empty bundle
C7_Witness ==
    /\ pc = "done"
    /\ fallbackRuns = 1
    /\ bundle # <<>>

SeedSet == Range(Seeds(prioritized, info_map))

\* C8 as claimed: after the fallback has re-ranked and the packer has run
\* again, every original seed is in the final accepted set unless its
\* content with {system preamble, request, overview} alone exceeds the
\* budget.
C8_SeedsKeptUnlessAloneTooBig ==
    AfterPacking /\ fallbackRuns = 1 =>
        \A s \in SeedSet :
            \/ s \in PathsOf(packed)
            \/ ~WithinLimit(BaseTokens
                            + TokensOf(ContentOrEmpty(s, info_map), encLoaded))

\* the token count of the candidates the second pass accepted before it
\* reached position i of its visiting order
AcceptedBefore(i) ==
    LET acc == {j \in 1..(i - 1) : queue[j] \in Range(packed)}
    IN  SumOver(acc, [j \in acc |->
                        TokensOf(ContentOrEmpty(queue[j][2], info_map), encLoaded)])

\* C8 as amended: after the fallback every original seed is visited by
\* the second pass, and is in the final accepted set unless its content
\* together with {system preamble, request, overview} and the contents
\* the second pass accepted before reaching it exceeds the budget.
C8_SeedsKeptUnlessCrowdedOut ==
    AfterPacking /\ fallbackRuns = 1 =>
        \A s \in SeedSet :
            \/ s \in PathsOf(packed)
            \/ \E i \in 1..Len(queue) :
                /\ queue[i][2] = s
                /\ ~WithinLimit(BaseTokens + AcceptedBefore(i)
                                + TokensOf(ContentOrEmpty(s, info_map), encLoaded))

\* after the fallback one seed is in the final set and another, which
\* alone would fit, is not
C8_Witness ==
    /\ pc = "done"
    /\ fallbackRuns = 1
    /\ \E s \in SeedSet : s \in PathsOf(packed)
    /\ \E s \in SeedSet :
        /\ s \notin PathsOf(packed)
        /\ WithinLimit(BaseTokens
                       + TokensOf(ContentOrEmpty(s, info_map), encLoaded))

\* the highest priority a list gives a path
KnownMax(list, p) == MaxOf({list[i][1] : i \in {j \in 1..Len(list) : list[j][2] = p}})

\* C9 as claimed: when a candidate list names the same path with several
\* priorities, the packer's output and the fallback's merged ranking carry
\* that path once, at the maximum of the priorities known for it.
C9_OncePerPathAtMaxPriority ==
    /\ AfterFirstPass =>
        \A i \in 1..Len(packed1) :
            /\ \A j \in 1..Len(packed1) : j # i => packed1[j][2] # packed1[i][2]
            /\ packed1[i][1] = KnownMax(prioritized, packed1[i][2])
    /\ fallbackRuns = 1 =>
        \A i \in 1..Len(ranked_b) :
            /\ \A j \in 1..Len(ranked_b) : j # i => ranked_b[j][2] # ranked_b[i][2]
            /\ ranked_b[i][2] \in PathsOf(prioritized) =>
                   ranked_b[i][1] >= KnownMax(prioritized, ranked_b[i][2])

\* C10 as claimed: an I/O failure on a single path, the stat during
\* admission or the read during load-and-redact, drops only that path and
\* the run does not abort.
C10_IoFailureDoesNotAbort ==
    (\E rel \in DOMAIN futures : futures[rel].st = "raised") => pc # "crashed"

\* C11: whenever the analysis oracle fails (the client is not ready, or
\* generate_content raises), the finished run has reported the failure on
\* the diagnostic channel and its exit code is 1; the exit code is 0 only
\* when the oracle call succeeded.
C11_OracleFailureExitsOne ==
    /\ (pc = "done" /\ oracle.analysis \in {"unready", "raised"}) =>
            /\ exitCode = 1
            /\ \E d \in stderr : d.kind \in {"Analysis error", "LLM error"}
    /\ exitCode = 0 => oracle.analysis = "ok"

\* the value main resolved for each configuration key
ResolvedCfg ==
    [headroom |-> headroom, file_cap_bytes |-> file_cap,
     selector_model |-> selector_model, analysis_model |-> analysis_model,
     max_stage1 |-> max_stage1, max_stage2 |-> max_stage2,
     allow_secrets |-> allow_secrets]

\* C12: once the configuration is resolved, each key holds the flag's
\* value if the flag was given, otherwise the config file's value if the
\* file sets the key, otherwise the built-in default.
C12_FlagOverFileOverDefault ==
    pc # "config" =>
        \A k \in CfgKeys :
            ResolvedCfg[k] = IF argv[k] # None THEN argv[k][1]
                             ELSE IF yml[k] # None THEN yml[k][1]
                             ELSE DefaultCfg[k]

\* the positions of main at which fits_early, the selection, the packer,
\* the fallback or cxml_bundle read FileInfo.content, or have read it
ReadingSteps == {"fits", "stage1", "stage2", "pack", "packing", "fallback",
                 "bundle", "analyze", "done"}

\* every admitted record carries what its worker returned
C13_AllLoaded ==
    pc \in ReadingSteps =>
        \A rel \in DOMAIN info_map :
            /\ futures[rel].st = "collected"
            /\ info_map[rel].content # None
            /\ info_map[rel].content = futures[rel].text
            /\ info_map[rel].redactions = futures[rel].count

\* a record changes only inside load_and_redact, from unloaded to loaded
C13_WriteOnce ==
    \A rel \in DOMAIN info_map :
        (rel \in DOMAIN info_map' /\ info_map'[rel] # info_map[rel]) =>
            /\ pc = "loading"
            /\ futures[rel].st = "done"
            /\ info_map[rel].content = None
            /\ info_map'[rel].content # None

\* C13: in any completion order of the read-and-redact tasks, when
\* load_and_redact has returned every admitted record has its content and
\* redaction count set, each record was written exactly once, and the
\* early-fit check, the selection and the packer run only after that.
C13_LoadedBeforeRead == []C13_AllLoaded /\ [][C13_WriteOnce]_vars

\* two records were loaded and load_and_redact has returned
C13_Witness ==
    /\ pc = "fits"
    /\ Cardinality(DOMAIN info_map) = 2
    /\ \E a, b \in DOMAIN info_map :
        info_map[a].redactions = 0 /\ info_map[b].redactions = 1

\* the ranking oracle was unavailable or failed in both selection stages
BothStagesFailed ==
    /\ oracle.stage1 \in {"unready", "raised"}
    /\ oracle.stage2 \in {"unready", "raised"}

\* the discovered paths truncated to maxStage2, each at priority 50
DefaultRanking ==
    [i \in 1..Min2(Len(files), max_stage2) |-> <<50, files[i]>>]

\* C14: if the ranking oracle is unavailable or fails in both selection
\* stages, each stage was called once, the run went on to the packer and
\* did not abort, and the packer received the discovered paths truncated
\* to maxStage2, each at the default priority 50.
C14_DegradedSelectionDefaults ==
    BothStagesFailed =>
        /\ stage1Calls = 1
        /\ stage2Calls = 1
        /\ expanded = [i \in 1..Len(DefaultRanking) |-> DefaultRanking[i][2]]
        /\ prioritized = DefaultRanking
        /\ pc \in {"pack", "packing", "fallback", "bundle", "analyze", "done"}
        /\ pass = 1 => offered = DefaultRanking
        /\ (pc = "done" /\ oracle.analysis # "unready") => exitCode = 0

\* both oracle calls raised, two files were discovered and maxStage2 is 1:
\* the packer is handed the first discovered path alone
C14_Witness ==
    /\ oracle.stage1 = "raised"
    /\ oracle.stage2 = "raised"
    /\ pc = "packing"
    /\ pass = 1
    /\ Len(files) = 2
    /\ offered = <<<<50, files[1]>>>>

\* the run went through selection and packing and has ended
SelectedRunDone == pc = "done" /\ earlyFit = "no"

\* candidate i of prioritized has a TRIMMED line on the diagnostic channel
HasTrimmedLine(i) ==
    Diag("TRIMMED", prioritized[i][2], prioritized[i][1]) \in stderr

NoDuplicates(q) == \A i, j \in 1..Len(q) : q[i] = q[j] => i = j

\* C16: the list of candidates produced by expanding the stage-1 patterns
\* against the discovered files contains no path twice and never has more
\* than maxStage1 entries.
C16_ExpansionDedupedAndCapped ==
    pc \in {"stage2", "pack", "packing", "fallback", "bundle", "analyze", "done"} =>
        /\ NoDuplicates(expanded)
        /\ Len(expanded) <= max_stage1

\* the number of times c occurs in q
Occurrences(q, c) == Cardinality({i \in 1..Len(q) : q[i] = c})

\* a is b with some entries left out, the order kept
RECURSIVE IsSubsequence(_, _)
IsSubsequence(a, b) ==
    IF a = <<>> THEN TRUE
    ELSE IF b = <<>> THEN FALSE
    ELSE IF Head(a) = Head(b) /\ IsSubsequence(Tail(a), Tail(b)) THEN TRUE
    ELSE IsSubsequence(a, Tail(b))

\* priority descending and, within one priority, content length ascending
InPackOrder(q) ==
    \A i, j \in 1..Len(q) :
        i < j =>
            \/ q[i][1] > q[j][1]
            \/ /\ q[i][1] = q[j][1]
               /\ ContentLen(q[i][2], info_map) <= ContentLen(q[j][2], info_map)

\* while the packer runs: it visits every candidate that has content, each
\* entry once, in pack order, and its output so far is what it accepted
\* among the candidates visited, in that order
C17_Order ==
    pc = "packing" =>
        /\ InPackOrder(queue)
        /\ \A i \in 1..Len(offered) :
              Occurrences(queue, offered[i]) =
                  IF Packable(offered[i][2], info_map)
                      THEN Occurrences(offered, offered[i]) ELSE 0
        /\ \A i \in 1..Len(queue) : Occurrences(offered, queue[i]) > 0
        /\ qi \in 0..Len(queue)
        /\ IsSubsequence(out, SubSeq(queue, 1, qi))
        /\ InPackOrder(out)

\* one step of the pass: the next candidate in the order, and only that
\* one, is accepted if it fits the budget together with what was accepted
\* before it, and skipped for good otherwise
C17_Step ==
    (pc = "packing" /\ pc' = "packing" /\ <<qi, out, queue>>' # <<qi, out, queue>>) =>
        /\ queue' = queue
        /\ qi' = qi + 1
        /\ IF CountTokens(<<ANALYSIS_SYSTEM, request, overview>>
                              \o ContentsOfList(Append(out, queue[qi'])),
                          encLoaded) <= Budget(headroom)
               THEN out' = Append(out, queue[qi'])
               ELSE out' = out

\* C17: the budgeted packer is a single forward pass: it considers each
\* candidate exactly once, in order of priority descending and, within one
\* priority, content length ascending; its output lists the accepted
\* candidates in that same order; a candidate that is skipped is never
\* accepted later in the pass, while candidates after it that still fit are
\* accepted.
C17_SingleForwardPass == []C17_Order /\ [][C17_Step]_vars

\* the pass is over: within one priority it accepted a short candidate,
\* skipped a candidate and accepted a candidate of a lower priority after it
C17_Witness ==
    /\ pc = "packing"
    /\ qi = Len(queue)
    /\ \E i, j, k \in 1..Len(queue) :
        /\ i < j /\ j < k
        /\ Occurrences(out, queue[i]) = 1
        /\ Occurrences(out, queue[j]) = 0
        /\ Occurrences(out, queue[k]) = 1
        /\ queue[j][1] > queue[k][1]

\* the paths a seed's content refers to, resolved over the admitted paths
DepsOfSeed(s) == ResolveRefs(ContentOrEmpty(s, info_map).refs, DOMAIN info_map)

\* the seeds whose content refers to p
SeedsReferring(p) == {s \in SeedSet : p \in DepsOfSeed(s)}

\* the score the merge rule gives p: the maximum of its original priority,
\* if it has one, and max(1, seed priority - 5) over the seeds referring
\* to it
MergeScore(p) ==
    MaxOf((IF p \in PathsOf(prioritized) THEN {KnownMax(prioritized, p)} ELSE {})
          \cup {Max2(1, KnownMax(prioritized, s) - 5) : s \in SeedsReferring(p)})

\* C18: given a prioritized list that names each path once, the fallback's
\* re-ranked list contains every original candidate path and every resolved
\* dependency path of the seeds exactly once; an original candidate never
\* scores below its original priority; a path's score is the maximum of its
\* original priority (if any) and max(1, seed priority - 5) over the seeds
\* that reference it; and the list is sorted by score descending, then path
\* ascending.
C18_FallbackMergeAndOrder ==
    (fallbackRuns = 1
     /\ NoDuplicates([i \in 1..Len(prioritized) |-> prioritized[i][2]])) =>
        /\ PathsOf(ranked_b) =
               PathsOf(prioritized) \cup UNION {DepsOfSeed(s) : s \in SeedSet}
        /\ NoDuplicates([i \in 1..Len(ranked_b) |-> ranked_b[i][2]])
        /\ \A i \in 1..Len(prioritized) :
               \E j \in 1..Len(ranked_b) :
                   /\ ranked_b[j][2] = prioritized[i][2]
                   /\ ranked_b[j][1] >= prioritized[i][1]
        /\ \A j \in 1..Len(ranked_b) : ranked_b[j][1] = MergeScore(ranked_b[j][2])
        /\ \A i, j \in 1..Len(ranked_b) :
               i < j => RankedLess(ranked_b[i], ranked_b[j])

\* the fallback ran on a list without duplicates; one seed of priority 90
\* raised a candidate ranked lower to 85, and a seed of priority 3 refers to
\* a path whose dependency score is the floor 1
C18_Witness ==
    /\ fallbackRuns = 1
    /\ NoDuplicates([i \in 1..Len(prioritized) |-> prioritized[i][2]])
    /\ \E i \in 1..Len(prioritized), j \in 1..Len(ranked_b) :
        /\ ranked_b[j][2] = prioritized[i][2]
        /\ prioritized[i][1] = 3
        /\ ranked_b[j][1] = 85
    /\ \E s \in SeedSet :
        KnownMax(prioritized, s) = 3 /\ DepsOfSeed(s) # {}

====
